---------------------------- MODULE Spec2Model ----------------------------
(***************************************************************************)
(* Post & variation store of the social-media assistant.                   *)
(*                                                                         *)
(* The model follows src/src/server/services/posts.ts (the service layer   *)
(* and, in the same file, the table schema), with the image helpers of     *)
(* src/src/lib/auth-client.ts and src/src/server/services/text-card.ts.    *)
(*                                                                         *)
(* A request handler is an async function: it runs synchronously between   *)
(* two awaits, and other handlers of the same worker run while it awaits.  *)
(* Each action below is one such synchronous stretch, together with the    *)
(* database statement or collaborator call whose completion starts it.     *)
(* The module-level object emptyHistory of the service layer is shared by  *)
(* every handler of the worker, so it is a variable of the model.          *)
(*                                                                         *)
(* Nullable values are options: <<>> is null, <<v>> is the value v.        *)
(***************************************************************************)
EXTENDS Integers, Sequences, FiniteSets, TLC

VARIABLES
    posts,          \* the posts table: id -> row
    blobs,          \* the R2 bucket: the set of object keys it holds
    emptyHistory,   \* the module-level emptyHistory object of services/posts.ts
    reqs,           \* handler slot -> the request it is running
    nextId,         \* the next value nanoid() returns
    clock,          \* the next value of new Date() / Date.now()
    started,        \* number of requests begun so far
    origin,         \* variation id -> the post whose request generated it, and its kind
    statusChangedBy, \* post id -> the user of the latest status change applied to the row
    dashboard       \* the Dashboard component: its posts state and the call it awaits

vars == <<posts, blobs, emptyHistory, reqs, nextId, clock, started, origin, statusChangedBy, dashboard>>

(***************************************************************************)
(* Bounds and input sets                                                   *)
(***************************************************************************)
\* Requests begun in a behaviour of Spec, of SeqSpec, of StoredSpec.
MaxRequests == 3
MaxSeqRequests == 4
MaxStoredRequests == 2
MaxDraftRequests == 3
MaxBatchRequests == 3
MaxCount == 2
MaxInputRequests == 3
MaxVariedRequests == 3
MaxDashboardRequests == 3

Handlers == {1, 2}

NULL == <<>>
Some(v) == <<v>>
IsNull(o) == o = <<>>
Val(o) == o[1]

\* No dashboard is open.
NoDashboard == [posts |-> <<>>, call |-> NULL]

Users == {"u1"}
ActingUsers == {NULL} \cup {Some(u) : u \in Users}
Feedbacks == {"shorter"}
Tones == {Some("friendly")}
ImprovedPrompts == {"improved prompt"}

\* A post as generatePostsWithAI returns it (generatedPostSchema).
GeneratedPost(imageStyle) ==
    [pillar |-> "meal planning", mainIdea |-> "idea", hook |-> "A",
     caption |-> "a", hashtags |-> <<"parenting">>,
     imageStyle |-> imageStyle, imagePrompt |-> "prompt"]

\* The replies of generatePostsWithAI: one post, of either image style.
GeneratedBatches(count) ==
    [1..count -> {GeneratedPost("ai-photo"), GeneratedPost("text-card")}]

\* The replies of generateTextVariationsWithAI: three variations each.
GeneratedVariations ==
    { << [hook |-> "B", caption |-> "b", hashtags |-> <<"lunch", "kids">>],
         [hook |-> "C", caption |-> "c", hashtags |-> <<>>],
         [hook |-> "D", caption |-> "d", hashtags |-> <<"mom">>] >> }

(***************************************************************************)
(* JSON text                                                               *)
(***************************************************************************)
\* JSON.stringify of an array of strings, of a history object.
JSONstringify(v) == [kind |-> "json", value |-> v]

\* Column texts that are not the JSON of a history object.
EmptyText == [kind |-> "empty"]
NotJsonText == [kind |-> "notjson"]
JsonNullText == [kind |-> "json", value |-> [t |-> "null"]]
JsonObjectText == [kind |-> "json", value |-> [t |-> "object"]]

HistoryValue(tv, iv) ==
    [t |-> "history", textVariations |-> tv, imageVariations |-> iv]

IsHistoryText(txt) == txt.kind = "json" /\ txt.value.t = "history"

(***************************************************************************)
(* parseHistory of services/posts.ts.  The result is a reference: either   *)
(* the shared emptyHistory object (ref = "shared"), or a fresh object      *)
(* (ref = "own") holding the parsed lists, or a parsed JSON value that has *)
(* no textVariations / imageVariations lists (ref = "bad"): the caller's   *)
(* first use of it raises a TypeError.                                     *)
(***************************************************************************)
SharedRef == [ref |-> "shared", textVariations |-> <<>>, imageVariations |-> <<>>]
BadRef == [ref |-> "bad", textVariations |-> <<>>, imageVariations |-> <<>>]
OwnRef(tv, iv) == [ref |-> "own", textVariations |-> tv, imageVariations |-> iv]

parseHistory(historyStr) ==
    IF IsNull(historyStr) \/ Val(historyStr).kind = "empty" THEN SharedRef
    ELSE IF Val(historyStr).kind = "notjson" THEN SharedRef
    ELSE IF Val(historyStr).value.t = "history"
         THEN OwnRef(Val(historyStr).value.textVariations,
                     Val(historyStr).value.imageVariations)
    ELSE BadRef

\* The lists a reference denotes, given the current content of emptyHistory.
Deref(h, shared) ==
    IF h.ref = "shared" THEN shared
    ELSE [textVariations |-> h.textVariations, imageVariations |-> h.imageVariations]


(***************************************************************************)
(* The posts table (schema: posts) and the statements the services issue   *)
(***************************************************************************)
PostStatuses == {"draft", "approved", "rejected", "posted"}

\* db.query.posts.findFirst({ where: eq(posts.id, id) })
getPost(id) == IF id \in DOMAIN posts THEN Some(posts[id]) ELSE NULL

\* listPosts({ status, limit = 50 }): the rows with that status (all rows
\* without status), the newest ListLimit of them by createdAt.
ListLimit == 50

listPosts(status) ==
    LET matching == {p \in DOMAIN posts : IsNull(status) \/ posts[p].status = Val(status)}
        newest == IF Cardinality(matching) <= ListLimit THEN matching
                  ELSE CHOOSE S \in SUBSET matching :
                          /\ Cardinality(S) = ListLimit
                          /\ \A p \in S, q \in matching \ S :
                                posts[p].createdAt >= posts[q].createdAt
    IN {posts[p] : p \in newest}

\* db.update(posts).set(set).where(eq(posts.id, id)): the columns of set
\* are overwritten in the row with this id; no row, no change.
ApplySet(row, set) ==
    [c \in DOMAIN row |-> IF c \in DOMAIN set THEN set[c] ELSE row[c]]

UpdateWhereId(table, id, set) ==
    IF id \in DOMAIN table
    THEN [i \in DOMAIN table |-> IF i = id THEN ApplySet(table[i], set) ELSE table[i]]
    ELSE table

\* db.insert(posts).values(row)
InsertRow(table, row) ==
    [i \in DOMAIN table \cup {row.id} |-> IF i = row.id THEN row ELSE table[i]]

\* A faulty variant of the DELETE below: a where clause that matches no row.
DeleteWhereNoId(table, id) == table

\* db.delete(posts).where(eq(posts.id, id))
DeleteWhereId(table, id) == [i \in DOMAIN table \ {id} |-> table[i]]

\* Date.prototype.toISOString
toISOString(t) == [iso |-> t]

(***************************************************************************)
(* Image helpers: the object key and public URL of an uploaded image       *)
(***************************************************************************)
\* uploadBufferToR2 via generateAndUploadImage: posts/<timestamp>-<postId>.jpg
PhotoKey(timestamp, postId) == [timestamp |-> timestamp, postId |-> postId, suffix |-> ".jpg"]

\* generateTextCard: posts/<timestamp>-<postId>-card.svg
CardKey(timestamp, postId) == [timestamp |-> timestamp, postId |-> postId, suffix |-> "-card.svg"]

ImageKeyFor(imageStyle, timestamp, postId) ==
    IF imageStyle = "ai-photo" THEN PhotoKey(timestamp, postId)
    ELSE CardKey(timestamp, postId)

PublicUrl(key) == [cdn |-> key]

(***************************************************************************)
(* Requests                                                                *)
(***************************************************************************)
IdleReq ==
    [op |-> "idle", pc |-> "idle", postId |-> 0, user |-> NULL,
     feedback |-> "", tone |-> NULL, variationId |-> 0,
     post |-> NULL, history |-> BadRef, imagePrompt |-> "",
     set |-> NULL, before |-> NULL, after |-> NULL,
     result |-> "none", returned |-> <<>>,
     batchId |-> 0, now |-> 0, count |-> 0, candidates |-> <<>>,
     generated |-> 0, images |-> <<>>, data |-> NULL]

\* A slot is free before its first request and once its request is finished
\* (its record then still shows the outcome of that request).
Free(h) == reqs[h].pc \in {"idle", "done"}
AllFree == \A h \in Handlers : Free(h)
\* The slots are alike: a request takes the lowest free one.
CanBegin(h) ==
    /\ Free(h)
    /\ \A g \in Handlers : g < h => ~Free(g)

\* A finished request: its slot keeps the outcome until the response is sent.
Finish(r, result, returned) ==
    [r EXCEPT !.pc = "done", !.result = result, !.returned = returned]

\* The request record after its UPDATE: it notes the row as the statement
\* found it and as it left it (null when there was no such row).
Updated(r, table) ==
    [r EXCEPT !.before = getPost(r.postId),
              !.after = IF r.postId \in DOMAIN table THEN Some(table[r.postId]) ELSE NULL]

\* The ids a client asks for: the posts it is shown (a post whose deletion
\* is under way or just done is still on some client's list), and the text
\* variations some createTextVariations call has made.
RequestedPostIds ==
    DOMAIN posts \cup {reqs[h].postId : h \in {g \in Handlers : reqs[g].op = "deletePost"}}
RequestedVariationIds == {i \in DOMAIN origin : origin[i].kind = "text"}

Init ==
    /\ posts = <<>>
    /\ blobs = {}
    /\ emptyHistory = [textVariations |-> <<>>, imageVariations |-> <<>>]
    /\ reqs = [h \in Handlers |-> IdleReq]
    /\ nextId = 1
    /\ clock = 1
    /\ started = 0
    /\ origin = <<>>
    /\ statusChangedBy = <<>>
    /\ dashboard = NoDashboard

\* origin extended with the ids a request on post postId has made
Originate(ids, postId, kind) ==
    [i \in DOMAIN origin \cup ids |->
        IF i \in ids THEN [post |-> postId, kind |-> kind] ELSE origin[i]]

(***************************************************************************)
(* generatePostsBatch                                                      *)
(***************************************************************************)
\* The call: batchId = nanoid(), now = new Date(), then await the generator.
BeginGeneratePostsBatch(h, user, count) ==
    /\ CanBegin(h)
    /\ reqs' = [reqs EXCEPT ![h] =
          [IdleReq EXCEPT !.op = "generatePostsBatch", !.pc = "generate",
                          !.user = user, !.count = count,
                          !.batchId = nextId, !.now = clock]]
    /\ nextId' = nextId + 1
    /\ clock' = clock + 1
    /\ started' = started + 1
    /\ UNCHANGED <<posts, blobs, emptyHistory, origin, statusChangedBy, dashboard>>

\* generatePostsWithAI resolves with count posts, or rejects.
BatchGenerated(h) ==
    /\ reqs[h].op = "generatePostsBatch" /\ reqs[h].pc = "generate"
    /\ \/ \E content \in GeneratedBatches(reqs[h].count) :
             reqs' = [reqs EXCEPT ![h].pc = "insert", ![h].candidates = content,
                                  ![h].generated = Len(content)]
       \/ reqs' = [reqs EXCEPT ![h] = Finish(@, "GenerationFailed", <<>>)]
    /\ UNCHANGED <<posts, blobs, emptyHistory, nextId, clock, started, origin, statusChangedBy, dashboard>>

\* A faulty variant of the row below: the creator is dropped.
NewPostWithoutCreator(postId, content, imageUrl, imageKey, batchId, user, now) ==
    [id |-> postId, pillar |-> content.pillar, mainIdea |-> content.mainIdea,
     hook |-> content.hook, caption |-> content.caption,
     hashtags |-> Some(JSONstringify(content.hashtags)),
     imageStyle |-> content.imageStyle, imagePrompt |-> content.imagePrompt,
     imageUrl |-> imageUrl, imageKey |-> imageKey,
     status |-> "draft", batchId |-> batchId, history |-> NULL,
     createdBy |-> NULL, approvedBy |-> NULL, rejectedBy |-> NULL,
     postedBy |-> NULL, createdAt |-> now, updatedAt |-> now]

\* The row generatePostsBatch inserts for one generated post.
NewPost(postId, content, imageUrl, imageKey, batchId, user, now) ==
    [id |-> postId, pillar |-> content.pillar, mainIdea |-> content.mainIdea,
     hook |-> content.hook, caption |-> content.caption,
     hashtags |-> Some(JSONstringify(content.hashtags)),
     imageStyle |-> content.imageStyle, imagePrompt |-> content.imagePrompt,
     imageUrl |-> imageUrl, imageKey |-> imageKey,
     status |-> "draft", batchId |-> batchId, history |-> NULL,
     createdBy |-> user, approvedBy |-> NULL, rejectedBy |-> NULL,
     postedBy |-> NULL, createdAt |-> now, updatedAt |-> now]

\* A faulty variant of the turn below, without the try/catch around the
\* image generation: a failed image ends the call.
BatchInsertUncaught(h, imageOk) ==
    /\ reqs[h].op = "generatePostsBatch" /\ reqs[h].pc = "insert"
    /\ LET r == reqs[h]
           content == Head(r.candidates)
           postId == nextId
           key == ImageKeyFor(content.imageStyle, clock, postId)
           row == NewPost(postId, content, Some(PublicUrl(key)), Some(key),
                          r.batchId, r.user, r.now)
           rest == Tail(r.candidates)
           created == Append(r.returned, row)
           images == Append(r.images, imageOk)
       IN IF imageOk
          THEN /\ posts' = InsertRow(posts, row)
               /\ blobs' = blobs \cup {key}
               /\ reqs' = [reqs EXCEPT ![h] =
                     IF rest = <<>>
                     THEN Finish([r EXCEPT !.candidates = rest, !.images = images], "ok", created)
                     ELSE [r EXCEPT !.candidates = rest, !.images = images,
                                    !.returned = created]]
          ELSE /\ reqs' = [reqs EXCEPT ![h] =
                     Finish([r EXCEPT !.images = images], "GenerationFailed", <<>>)]
               /\ UNCHANGED <<posts, blobs>>
    /\ nextId' = nextId + 1
    /\ clock' = clock + 1
    /\ UNCHANGED <<emptyHistory, started, origin, statusChangedBy, dashboard>>

\* One turn of the loop: postId = nanoid(), the image is generated and
\* uploaded (or fails, and the post goes on without image), the row is
\* inserted.  After the last turn the function returns.
BatchInsert(h, imageOk) ==
    /\ reqs[h].op = "generatePostsBatch" /\ reqs[h].pc = "insert"
    /\ LET r == reqs[h]
           content == Head(r.candidates)
           postId == nextId
           key == ImageKeyFor(content.imageStyle, clock, postId)
           row == NewPost(postId, content,
                          IF imageOk THEN Some(PublicUrl(key)) ELSE NULL,
                          IF imageOk THEN Some(key) ELSE NULL,
                          r.batchId, r.user, r.now)
           rest == Tail(r.candidates)
           created == Append(r.returned, row)
           images == Append(r.images, imageOk)
       IN /\ posts' = InsertRow(posts, row)
          /\ blobs' = IF imageOk THEN blobs \cup {key} ELSE blobs
          /\ reqs' = [reqs EXCEPT ![h] =
                IF rest = <<>>
                THEN Finish([r EXCEPT !.candidates = rest, !.images = images], "ok", created)
                ELSE [r EXCEPT !.candidates = rest, !.images = images,
                               !.returned = created]]
    /\ nextId' = nextId + 1
    /\ clock' = clock + 1
    /\ UNCHANGED <<emptyHistory, started, origin, statusChangedBy, dashboard>>

(***************************************************************************)
(* approvePost, rejectPost, markPostAsPosted: one UPDATE, then getPost     *)
(***************************************************************************)
BeginStatus(h, op, id, user, set) ==
    /\ CanBegin(h)
    /\ posts' = UpdateWhereId(posts, id, set)
    /\ reqs' = [reqs EXCEPT ![h] =
          Updated([IdleReq EXCEPT !.op = op, !.pc = "reread", !.postId = id,
                                  !.user = user, !.set = Some(set)],
                  UpdateWhereId(posts, id, set))]
    /\ statusChangedBy' =
          IF id \in DOMAIN posts
          THEN [p \in DOMAIN statusChangedBy \cup {id} |->
                   IF p = id THEN user ELSE statusChangedBy[p]]
          ELSE statusChangedBy
    /\ clock' = clock + 1
    /\ started' = started + 1
    /\ UNCHANGED <<blobs, emptyHistory, nextId, origin, dashboard>>

\* Faulty variants of the columns below: approvePost without its actor
\* column, markPostAsPosted writing the status of approvePost.
ApproveSetWithoutActor(user, now) ==
    [status |-> "approved", updatedAt |-> now]

MarkPostedSetApproved(user, now) ==
    [status |-> "approved", postedBy |-> user, updatedAt |-> now]

\* Another faulty variant: approvePost clears the two other actor columns.
ApproveSetClearingOthers(user, now) ==
    [status |-> "approved", approvedBy |-> user, rejectedBy |-> NULL,
     postedBy |-> NULL, updatedAt |-> now]

\* Another faulty variant: rejectPost sends the post back to draft.
RejectSetToDraft(user, now) ==
    [status |-> "draft", rejectedBy |-> user, updatedAt |-> now]

\* The columns approvePost, rejectPost and markPostAsPosted set; user is
\* user?.id ?? null.
ApproveSet(user, now) ==
    [status |-> "approved", approvedBy |-> user, updatedAt |-> now]

RejectSet(user, now) ==
    [status |-> "rejected", rejectedBy |-> user, updatedAt |-> now]

MarkPostedSet(user, now) ==
    [status |-> "posted", postedBy |-> user, updatedAt |-> now]

approvePost(h, id, user) ==
    BeginStatus(h, "approvePost", id, user, ApproveSet(user, clock))

rejectPost(h, id, user) ==
    BeginStatus(h, "rejectPost", id, user, RejectSet(user, clock))

markPostAsPosted(h, id, user) ==
    BeginStatus(h, "markPostAsPosted", id, user, MarkPostedSet(user, clock))

\* The closing "return getPost(id)" of the status functions, of
\* acceptTextVariation and of regenerateImage.
ReturnPost(h) ==
    /\ reqs[h].pc = "reread"
    /\ reqs' = [reqs EXCEPT ![h] =
          Finish(@, IF IsNull(getPost(@.postId)) THEN "undefined" ELSE "ok",
                 getPost(@.postId))]
    /\ UNCHANGED <<posts, blobs, emptyHistory, nextId, clock, started, origin, statusChangedBy, dashboard>>

(***************************************************************************)
(* deletePost                                                              *)
(***************************************************************************)
\* getPost(id); with an imageKey the blob deletion is awaited next.
BeginDeletePost(h, id) ==
    /\ CanBegin(h)
    /\ reqs' = [reqs EXCEPT ![h] =
          [IdleReq EXCEPT !.op = "deletePost", !.postId = id, !.post = getPost(id),
                          !.pc = IF ~IsNull(getPost(id)) /\ ~IsNull(Val(getPost(id)).imageKey)
                                 THEN "deleteImage" ELSE "deleteRow"]]
    /\ started' = started + 1
    /\ UNCHANGED <<posts, blobs, emptyHistory, nextId, clock, origin, statusChangedBy, dashboard>>

\* A faulty variant of the step below, without the try/catch: a failed blob
\* deletion ends the call before the DELETE.
DeleteImageUncaught(h, deleted) ==
    /\ reqs[h].op = "deletePost" /\ reqs[h].pc = "deleteImage"
    /\ blobs' = IF deleted THEN blobs \ {Val(Val(reqs[h].post).imageKey)} ELSE blobs
    /\ reqs' = [reqs EXCEPT ![h] =
          IF deleted THEN [@ EXCEPT !.pc = "deleteRow", !.images = <<deleted>>]
          ELSE Finish([@ EXCEPT !.images = <<deleted>>], "DeleteFailed", <<>>)]
    /\ UNCHANGED <<posts, emptyHistory, nextId, clock, started, origin, statusChangedBy, dashboard>>

\* deleteImageFromR2(post.imageKey): a failure is logged and swallowed.
DeleteImage(h, deleted) ==
    /\ reqs[h].op = "deletePost" /\ reqs[h].pc = "deleteImage"
    /\ blobs' = IF deleted THEN blobs \ {Val(Val(reqs[h].post).imageKey)} ELSE blobs
    /\ reqs' = [reqs EXCEPT ![h].pc = "deleteRow", ![h].images = <<deleted>>]
    /\ UNCHANGED <<posts, emptyHistory, nextId, clock, started, origin, statusChangedBy, dashboard>>

DeleteRow(h) ==
    /\ reqs[h].op = "deletePost" /\ reqs[h].pc = "deleteRow"
    /\ posts' = DeleteWhereId(posts, reqs[h].postId)
    /\ reqs' = [reqs EXCEPT ![h] =
          Finish(Updated(@, DeleteWhereId(posts, @.postId)), "ok", <<>>)]
    /\ UNCHANGED <<blobs, emptyHistory, nextId, clock, started, origin, statusChangedBy, dashboard>>

(***************************************************************************)
(* Mutation of a parsed history through its reference                      *)
(***************************************************************************)
\* A faulty variant of the push below: the new records replace the list.
PushTextReplacing(h, shared, recs) ==
    IF h.ref = "shared"
    THEN <<h, [shared EXCEPT !.textVariations = recs]>>
    ELSE <<[h EXCEPT !.textVariations = recs], shared>>

\* history.textVariations.push(...recs): the pair <<reference, emptyHistory>> after it
PushText(h, shared, recs) ==
    IF h.ref = "shared"
    THEN <<h, [shared EXCEPT !.textVariations = @ \o recs]>>
    ELSE <<[h EXCEPT !.textVariations = @ \o recs], shared>>

\* history.imageVariations.push(rec)
PushImage(h, shared, rec) ==
    IF h.ref = "shared"
    THEN <<h, [shared EXCEPT !.imageVariations = Append(@, rec)]>>
    ELSE <<[h EXCEPT !.imageVariations = Append(@, rec)], shared>>

\* history.textVariations = list
AssignText(h, shared, list) ==
    IF h.ref = "shared"
    THEN <<h, [shared EXCEPT !.textVariations = list]>>
    ELSE <<[h EXCEPT !.textVariations = list], shared>>

\* JSON.stringify(history)
StringifyHistory(h, shared) ==
    JSONstringify(HistoryValue(Deref(h, shared).textVariations,
                               Deref(h, shared).imageVariations))

\* A faulty variant of the statement below: the row is written back whole,
\* as the handler read it, with the prepared columns.
ApplyPendingUpdateWholeRow(h) ==
    UpdateWhereId(posts, reqs[h].postId, ApplySet(Val(reqs[h].post), Val(reqs[h].set)))

\* The UPDATE a handler prepared, applied to the table.
ApplyPendingUpdate(h) == UpdateWhereId(posts, reqs[h].postId, Val(reqs[h].set))

(***************************************************************************)
(* createTextVariations                                                    *)
(***************************************************************************)
BeginCreateTextVariations(h, postId, feedback, tone) ==
    /\ CanBegin(h)
    /\ LET r == [IdleReq EXCEPT !.op = "createTextVariations", !.postId = postId,
                                !.feedback = feedback, !.tone = tone,
                                !.post = getPost(postId)]
       IN reqs' = [reqs EXCEPT ![h] =
             IF IsNull(r.post) THEN Finish(r, "Post not found", <<>>)
             ELSE [r EXCEPT !.pc = "generate"]]
    /\ started' = started + 1
    /\ UNCHANGED <<posts, blobs, emptyHistory, nextId, clock, origin, statusChangedBy, dashboard>>

\* The records createTextVariations makes of the generator's variations.
VariationRecords(variations, firstId, feedback, tone, now) ==
    [i \in 1..Len(variations) |->
        [id |-> firstId + i - 1, hook |-> variations[i].hook,
         caption |-> variations[i].caption, hashtags |-> variations[i].hashtags,
         feedback |-> feedback, tone |-> tone,
         createdAt |-> toISOString(now), accepted |-> FALSE]]

\* What createTextVariations returns for its records.
VariationResults(records) ==
    [i \in 1..Len(records) |->
        [id |-> records[i].id, hook |-> records[i].hook,
         caption |-> records[i].caption, hashtags |-> records[i].hashtags]]

\* generateTextVariationsWithAI rejects: the error reaches the caller.
TextVariationsFailed(h) ==
    /\ reqs[h].op = "createTextVariations" /\ reqs[h].pc = "generate"
    /\ reqs' = [reqs EXCEPT ![h] = Finish(@, "GenerationFailed", <<>>)]
    /\ UNCHANGED <<posts, blobs, emptyHistory, nextId, clock, started, origin, statusChangedBy, dashboard>>

\* generateTextVariationsWithAI resolves: the history is parsed, the records
\* are made and pushed, and the UPDATE is issued with the serialized history.
TextVariationsGenerated(h, variations) ==
    /\ reqs[h].op = "createTextVariations" /\ reqs[h].pc = "generate"
    /\ LET r == reqs[h]
           history == parseHistory(Val(r.post).history)
           records == VariationRecords(variations, nextId, r.feedback, r.tone, clock)
           pushed == PushText(history, emptyHistory, records)
           ids == {records[i].id : i \in 1..Len(records)}
       IN IF history.ref = "bad"
          THEN /\ reqs' = [reqs EXCEPT ![h] = Finish(r, "TypeError", <<>>)]
               /\ UNCHANGED <<emptyHistory, origin>>
          ELSE /\ emptyHistory' = pushed[2]
               /\ origin' = Originate(ids, r.postId, "text")
               /\ reqs' = [reqs EXCEPT ![h] =
                     [r EXCEPT !.pc = "update", !.history = pushed[1],
                               !.returned = VariationResults(records),
                               !.set = Some([history |-> Some(StringifyHistory(pushed[1], pushed[2])),
                                             updatedAt |-> clock])]]
    /\ nextId' = nextId + Len(variations)
    /\ clock' = clock + 1
    /\ UNCHANGED <<posts, blobs, started, statusChangedBy, dashboard>>

CreateTextVariationsUpdate(h) ==
    /\ reqs[h].op = "createTextVariations" /\ reqs[h].pc = "update"
    /\ posts' = ApplyPendingUpdate(h)
    /\ reqs' = [reqs EXCEPT ![h] = Finish(Updated(@, ApplyPendingUpdate(h)), "ok", @.returned)]
    /\ UNCHANGED <<blobs, emptyHistory, nextId, clock, started, origin, statusChangedBy, dashboard>>

(***************************************************************************)
(* acceptTextVariation                                                     *)
(***************************************************************************)
BeginAcceptTextVariation(h, postId, variationId) ==
    /\ CanBegin(h)
    /\ LET r == [IdleReq EXCEPT !.op = "acceptTextVariation", !.postId = postId,
                                !.variationId = variationId,
                                !.post = getPost(postId)]
       IN reqs' = [reqs EXCEPT ![h] =
             IF IsNull(r.post) THEN Finish(r, "Post not found", <<>>)
             ELSE [r EXCEPT !.pc = "accept"]]
    /\ started' = started + 1
    /\ UNCHANGED <<posts, blobs, emptyHistory, nextId, clock, origin, statusChangedBy, dashboard>>

\* history.textVariations.find((v) => v.id === variationId): the first match
FindVariation(list, variationId) ==
    LET hits == {i \in 1..Len(list) : list[i].id = variationId}
    IN IF hits = {} THEN NULL
       ELSE Some(list[CHOOSE i \in hits : \A j \in hits : i <= j])

\* Faulty variants of the map below: the comparison inverted, and the
\* comparison written as an assignment (every entry comes out accepted).
MarkAcceptedInverted(list, variationId) ==
    [i \in 1..Len(list) |-> [list[i] EXCEPT !.accepted = (list[i].id # variationId)]]

MarkAcceptedAssigned(list, variationId) ==
    [i \in 1..Len(list) |-> [list[i] EXCEPT !.accepted = TRUE]]

\* A third faulty variant: a filter in place of the map (the other entries
\* are dropped).
MarkAcceptedFiltered(list, variationId) ==
    SelectSeq([i \in 1..Len(list) |-> [list[i] EXCEPT !.accepted = TRUE]],
              LAMBDA v : v.id = variationId)

\* history.textVariations.map((v) => ({ ...v, accepted: v.id === variationId }))
MarkAccepted(list, variationId) ==
    [i \in 1..Len(list) |-> [list[i] EXCEPT !.accepted = (list[i].id = variationId)]]

\* A faulty variant of the columns below: the hashtags column is left out.
AcceptSetWithoutHashtags(variation, historyText, now) ==
    [hook |-> variation.hook, caption |-> variation.caption,
     history |-> Some(historyText), updatedAt |-> now]

\* Another faulty variant: the accept sends the post back to draft.
AcceptSetBackToDraft(variation, historyText, now) ==
    [hook |-> variation.hook, caption |-> variation.caption,
     hashtags |-> Some(JSONstringify(variation.hashtags)),
     history |-> Some(historyText), status |-> "draft", updatedAt |-> now]

\* The columns acceptTextVariation sets.
AcceptSet(variation, historyText, now) ==
    [hook |-> variation.hook, caption |-> variation.caption,
     hashtags |-> Some(JSONstringify(variation.hashtags)),
     history |-> Some(historyText), updatedAt |-> now]

\* After getPost: parse, find, mark, and issue the UPDATE.
AcceptTextVariation(h) ==
    /\ reqs[h].op = "acceptTextVariation" /\ reqs[h].pc = "accept"
    /\ LET r == reqs[h]
           history == parseHistory(Val(r.post).history)
           list == Deref(history, emptyHistory).textVariations
           variation == FindVariation(list, r.variationId)
           marked == AssignText(history, emptyHistory, MarkAccepted(list, r.variationId))
       IN IF history.ref = "bad"
          THEN /\ reqs' = [reqs EXCEPT ![h] = Finish(r, "TypeError", <<>>)]
               /\ UNCHANGED <<emptyHistory, clock>>
          ELSE IF IsNull(variation)
          THEN /\ reqs' = [reqs EXCEPT ![h] = Finish(r, "Variation not found", <<>>)]
               /\ UNCHANGED <<emptyHistory, clock>>
          ELSE /\ emptyHistory' = marked[2]
               /\ clock' = clock + 1
               /\ reqs' = [reqs EXCEPT ![h] =
                     [r EXCEPT !.pc = "update", !.history = marked[1],
                               !.set = Some(AcceptSet(Val(variation),
                                                      StringifyHistory(marked[1], marked[2]),
                                                      clock))]]
    /\ UNCHANGED <<posts, blobs, nextId, started, origin, statusChangedBy, dashboard>>

AcceptTextVariationUpdate(h) ==
    /\ reqs[h].op = "acceptTextVariation" /\ reqs[h].pc = "update"
    /\ posts' = ApplyPendingUpdate(h)
    /\ reqs' = [reqs EXCEPT ![h] = [Updated(@, ApplyPendingUpdate(h)) EXCEPT !.pc = "reread"]]
    /\ UNCHANGED <<blobs, emptyHistory, nextId, clock, started, origin, statusChangedBy, dashboard>>

(***************************************************************************)
(* regenerateImage                                                         *)
(***************************************************************************)
BeginRegenerateImage(h, postId, feedback) ==
    /\ CanBegin(h)
    /\ LET r == [IdleReq EXCEPT !.op = "regenerateImage", !.postId = postId,
                                !.feedback = feedback, !.post = getPost(postId)]
       IN reqs' = [reqs EXCEPT ![h] =
             IF IsNull(r.post) THEN Finish(r, "Post not found", <<>>)
             ELSE [r EXCEPT !.pc = "improve"]]
    /\ started' = started + 1
    /\ UNCHANGED <<posts, blobs, emptyHistory, nextId, clock, origin, statusChangedBy, dashboard>>

\* generateImprovedImagePrompt rejects.
ImprovePromptFailed(h) ==
    /\ reqs[h].op = "regenerateImage" /\ reqs[h].pc = "improve"
    /\ reqs' = [reqs EXCEPT ![h] = Finish(@, "GenerationFailed", <<>>)]
    /\ UNCHANGED <<posts, blobs, emptyHistory, nextId, clock, started, origin, statusChangedBy, dashboard>>

\* The entry that archives the post's current image.
OriginalImage(id, post) ==
    [id |-> id, imagePrompt |-> post.imagePrompt, imageUrl |-> post.imageUrl,
     imageKey |-> post.imageKey, feedback |-> "original",
     createdAt |-> toISOString(post.createdAt), accepted |-> FALSE]

\* The entry of the newly generated image.
NewImage(id, imagePrompt, imageUrl, imageKey, feedback, now) ==
    [id |-> id, imagePrompt |-> imagePrompt, imageUrl |-> imageUrl,
     imageKey |-> imageKey, feedback |-> feedback,
     createdAt |-> toISOString(now), accepted |-> TRUE]

\* generateImprovedImagePrompt resolves: the history is parsed, the current
\* image (if the post has one) is pushed, and the image generation starts.
PromptImproved(h, imagePrompt) ==
    /\ reqs[h].op = "regenerateImage" /\ reqs[h].pc = "improve"
    /\ LET r == reqs[h]
           post == Val(r.post)
           history == parseHistory(post.history)
           pushed == PushImage(history, emptyHistory, OriginalImage(nextId, post))
       IN IF IsNull(post.imageUrl)
          THEN /\ reqs' = [reqs EXCEPT ![h] =
                     [r EXCEPT !.pc = "image", !.history = history,
                               !.imagePrompt = imagePrompt]]
               /\ UNCHANGED <<emptyHistory, nextId, origin>>
          ELSE IF history.ref = "bad"
          THEN /\ reqs' = [reqs EXCEPT ![h] = Finish(r, "TypeError", <<>>)]
               /\ UNCHANGED <<emptyHistory, nextId, origin>>
          ELSE /\ emptyHistory' = pushed[2]
               /\ nextId' = nextId + 1
               /\ origin' = Originate({nextId}, r.postId, "image")
               /\ reqs' = [reqs EXCEPT ![h] =
                     [r EXCEPT !.pc = "image", !.history = pushed[1],
                               !.imagePrompt = imagePrompt]]
    /\ UNCHANGED <<posts, blobs, clock, started, statusChangedBy, dashboard>>

\* A faulty variant of the rejection below: the history, with the archived
\* image already pushed, is stored before the error is passed on.
ImageFailedAfterStore(h) ==
    /\ reqs[h].op = "regenerateImage" /\ reqs[h].pc = "image"
    /\ posts' = UpdateWhereId(posts, reqs[h].postId,
                    [history |-> Some(StringifyHistory(reqs[h].history, emptyHistory))])
    /\ reqs' = [reqs EXCEPT ![h] = Finish(@, "GenerationFailed", <<>>)]
    /\ UNCHANGED <<blobs, emptyHistory, nextId, clock, started, origin, statusChangedBy, dashboard>>

\* generateAndUploadImage / generateTextCard rejects.
ImageFailed(h) ==
    /\ reqs[h].op = "regenerateImage" /\ reqs[h].pc = "image"
    /\ reqs' = [reqs EXCEPT ![h] = Finish(@, "GenerationFailed", <<>>)]
    /\ UNCHANGED <<posts, blobs, emptyHistory, nextId, clock, started, origin, statusChangedBy, dashboard>>

\* The image is uploaded: the new entry is pushed and the UPDATE is issued.
ImageGenerated(h) ==
    /\ reqs[h].op = "regenerateImage" /\ reqs[h].pc = "image"
    /\ LET r == reqs[h]
           post == Val(r.post)
           key == ImageKeyFor(post.imageStyle, clock, post.id)
           imageUrl == Some(PublicUrl(key))
           imageKey == Some(key)
           pushed == PushImage(r.history, emptyHistory,
                               NewImage(nextId, r.imagePrompt, imageUrl, imageKey,
                                        r.feedback, clock))
       IN /\ blobs' = blobs \cup {key}
          /\ IF r.history.ref = "bad"
             THEN /\ reqs' = [reqs EXCEPT ![h] = Finish(r, "TypeError", <<>>)]
                  /\ UNCHANGED <<emptyHistory, nextId, origin>>
             ELSE /\ emptyHistory' = pushed[2]
                  /\ nextId' = nextId + 1
                  /\ origin' = Originate({nextId}, r.postId, "image")
                  /\ reqs' = [reqs EXCEPT ![h] =
                        [r EXCEPT !.pc = "update", !.history = pushed[1],
                                  !.set = Some([imagePrompt |-> r.imagePrompt,
                                                imageUrl |-> imageUrl,
                                                imageKey |-> imageKey,
                                                history |-> Some(StringifyHistory(pushed[1], pushed[2])),
                                                updatedAt |-> clock])]]
    /\ clock' = clock + 1
    /\ UNCHANGED <<posts, started, statusChangedBy, dashboard>>

RegenerateImageUpdate(h) ==
    /\ reqs[h].op = "regenerateImage" /\ reqs[h].pc = "update"
    /\ posts' = ApplyPendingUpdate(h)
    /\ reqs' = [reqs EXCEPT ![h] = [Updated(@, ApplyPendingUpdate(h)) EXCEPT !.pc = "reread"]]
    /\ UNCHANGED <<blobs, emptyHistory, nextId, clock, started, origin, statusChangedBy, dashboard>>

(***************************************************************************)
(* Specifications                                                          *)
(***************************************************************************)
\* A generatePostsBatch request with count among counts arrives at slot h.
BeginBatchOf(h, counts) ==
    \E user \in ActingUsers, count \in counts : BeginGeneratePostsBatch(h, user, count)

\* A request on existing posts arrives at handler slot h.
BeginOnPost(h) ==
    \/ \E id \in RequestedPostIds, user \in ActingUsers : approvePost(h, id, user)
    \/ \E id \in RequestedPostIds, user \in ActingUsers : rejectPost(h, id, user)
    \/ \E id \in RequestedPostIds, user \in ActingUsers : markPostAsPosted(h, id, user)
    \/ \E id \in RequestedPostIds : BeginDeletePost(h, id)
    \/ \E id \in RequestedPostIds, feedback \in Feedbacks, tone \in Tones :
          BeginCreateTextVariations(h, id, feedback, tone)
    \/ \E id \in RequestedPostIds, variationId \in RequestedVariationIds :
          BeginAcceptTextVariation(h, id, variationId)
    \/ \E id \in RequestedPostIds, feedback \in Feedbacks :
          BeginRegenerateImage(h, id, feedback)

\* A request arrives at handler slot h; batches are of one post.
Begin(h) == BeginBatchOf(h, {1}) \/ BeginOnPost(h)

\* A handler goes on after an await.
Continue(h) ==
    \/ BatchGenerated(h)
    \/ \E imageOk \in BOOLEAN : BatchInsert(h, imageOk)
    \/ ReturnPost(h)
    \/ \E deleted \in BOOLEAN : DeleteImage(h, deleted)
    \/ DeleteRow(h)
    \/ TextVariationsFailed(h)
    \/ \E variations \in GeneratedVariations :
          TextVariationsGenerated(h, variations)
    \/ CreateTextVariationsUpdate(h)
    \/ AcceptTextVariation(h)
    \/ AcceptTextVariationUpdate(h)
    \/ ImprovePromptFailed(h)
    \/ \E imagePrompt \in ImprovedPrompts : PromptImproved(h, imagePrompt)
    \/ ImageFailed(h)
    \/ ImageGenerated(h)
    \/ RegenerateImageUpdate(h)

\* Requests of one worker interleave at their awaits.
Next == \E h \in Handlers : (started < MaxRequests /\ Begin(h)) \/ Continue(h)

Spec == Init /\ [][Next]_vars

\* One request at a time: a request begins only when no other is in flight.
SeqNext ==
    \E h \in Handlers :
        (AllFree /\ started < MaxSeqRequests /\ Begin(h)) \/ Continue(h)

SeqSpec == Init /\ [][SeqNext]_vars

\* One request at a time, with batches of up to MaxCount posts.
BatchNext ==
    \E h \in Handlers :
        \/ /\ AllFree
           /\ started < MaxBatchRequests
           /\ BeginBatchOf(h, 1..MaxCount) \/ BeginOnPost(h)
        \/ Continue(h)

BatchSpec == Init /\ [][BatchNext]_vars

(***************************************************************************)
(* The server functions generateTextVariationsFn and regenerateImageFn:    *)
(* the request data is validated against the schema before the handler     *)
(* calls the service.  A feedback is given by its text and its length.     *)
(***************************************************************************)
TONE_OPTIONS == {"formal", "friendly", "spicy", "minimal"}
FeedbackMinLength == 1
FeedbackMaxLength == 500

\* Faulty variants of the schemas below: the upper bound on the feedback is
\* missing.
generateTextVariationsSchemaNoMax(data) ==
    /\ data.feedback.length >= FeedbackMinLength
    /\ IsNull(data.tone) \/ Val(data.tone) \in TONE_OPTIONS

\* feedback: z.string().min(1).max(500); tone: z.enum(TONE_OPTIONS).nullable().optional()
generateTextVariationsSchema(data) ==
    /\ data.feedback.length >= FeedbackMinLength
    /\ data.feedback.length <= FeedbackMaxLength
    /\ IsNull(data.tone) \/ Val(data.tone) \in TONE_OPTIONS

\* feedback: z.string().min(1).max(500)
regenerateImageSchema(data) ==
    /\ data.feedback.length >= FeedbackMinLength
    /\ data.feedback.length <= FeedbackMaxLength

\* The feedbacks and tones a client may send, valid or not.
SentFeedbacks ==
    {[text |-> "", length |-> 0], [text |-> "shorter", length |-> 7],
     [text |-> "five hundred characters", length |-> 500],
     [text |-> "five hundred and one characters", length |-> 501]}
SentTones == {NULL, Some("friendly"), Some("angry")}

\* inputValidator rejects the data: the handler is not run.
RejectInput(h, fn, data) ==
    /\ CanBegin(h)
    /\ reqs' = [reqs EXCEPT ![h] =
          Finish([IdleReq EXCEPT !.op = fn, !.postId = data.postId, !.data = Some(data)],
                 "ValidationError", <<>>)]
    /\ started' = started + 1
    /\ UNCHANGED <<posts, blobs, emptyHistory, nextId, clock, origin, statusChangedBy, dashboard>>

generateTextVariationsFn(h, data) ==
    IF generateTextVariationsSchema(data)
    THEN /\ CanBegin(h)
         /\ LET r == [IdleReq EXCEPT !.op = "createTextVariations", !.postId = data.postId,
                                     !.feedback = data.feedback.text, !.tone = data.tone,
                                     !.post = getPost(data.postId), !.data = Some(data)]
            IN reqs' = [reqs EXCEPT ![h] =
                  IF IsNull(r.post) THEN Finish(r, "Post not found", <<>>)
                  ELSE [r EXCEPT !.pc = "generate"]]
         /\ started' = started + 1
         /\ UNCHANGED <<posts, blobs, emptyHistory, nextId, clock, origin, statusChangedBy, dashboard>>
    ELSE RejectInput(h, "generateTextVariationsFn", data)

regenerateImageFn(h, data) ==
    IF regenerateImageSchema(data)
    THEN /\ CanBegin(h)
         /\ LET r == [IdleReq EXCEPT !.op = "regenerateImage", !.postId = data.postId,
                                     !.feedback = data.feedback.text,
                                     !.post = getPost(data.postId), !.data = Some(data)]
            IN reqs' = [reqs EXCEPT ![h] =
                  IF IsNull(r.post) THEN Finish(r, "Post not found", <<>>)
                  ELSE [r EXCEPT !.pc = "improve"]]
         /\ started' = started + 1
         /\ UNCHANGED <<posts, blobs, emptyHistory, nextId, clock, origin, statusChangedBy, dashboard>>
    ELSE RejectInput(h, "regenerateImageFn", data)

\* A request arrives at a server function with data of any kind.
BeginFn(h) ==
    \/ \E id \in RequestedPostIds, feedback \in SentFeedbacks, tone \in SentTones :
          generateTextVariationsFn(h, [postId |-> id, feedback |-> feedback, tone |-> tone])
    \/ \E id \in RequestedPostIds, feedback \in SentFeedbacks :
          regenerateImageFn(h, [postId |-> id, feedback |-> feedback, tone |-> NULL])

\* One request at a time, through the server functions or straight to the
\* services.
InputNext ==
    \E h \in Handlers :
        \/ /\ AllFree
           /\ started < MaxInputRequests
           /\ Begin(h) \/ BeginFn(h)
        \/ Continue(h)

InputSpec == Init /\ [][InputNext]_vars

(***************************************************************************)
(* A table that already holds a row whose history column was not written   *)
(* by these services: null, empty, not JSON, or JSON of another shape.     *)
(***************************************************************************)
LegacyHistories ==
    {NULL, Some(EmptyText), Some(NotJsonText), Some(JsonNullText), Some(JsonObjectText)}

\* The row a generatePostsBatch call that began at time now inserted (image
\* uploaded), with the history column as given.
StoredPost(batchId, postId, now, history) ==
    [NewPost(postId, GeneratedPost("ai-photo"),
             Some(PublicUrl(PhotoKey(now + 1, postId))),
             Some(PhotoKey(now + 1, postId)), batchId, NULL, now)
     EXCEPT !.history = history]

StoredInit ==
    /\ \E history \in LegacyHistories :
          posts = InsertRow(<<>>, StoredPost(1, 2, 1, history))
    /\ blobs = {PhotoKey(2, 2)}
    /\ emptyHistory = [textVariations |-> <<>>, imageVariations |-> <<>>]
    /\ reqs = [h \in Handlers |-> IdleReq]
    /\ nextId = 3
    /\ clock = 3
    /\ started = 0
    /\ origin = <<>>
    /\ statusChangedBy = <<>>
    /\ dashboard = NoDashboard

StoredNext ==
    \E h \in Handlers :
        (AllFree /\ started < MaxStoredRequests /\ Begin(h)) \/ Continue(h)

StoredSpec == StoredInit /\ [][StoredNext]_vars

(***************************************************************************)
(* A worker that starts on a table holding the two drafts of two earlier   *)
(* generatePostsBatch calls; its requests interleave at their awaits.      *)
(***************************************************************************)
DraftsInit ==
    /\ posts = InsertRow(InsertRow(<<>>, StoredPost(1, 2, 1, NULL)),
                         StoredPost(3, 4, 3, NULL))
    /\ blobs = {PhotoKey(2, 2), PhotoKey(4, 4)}
    /\ emptyHistory = [textVariations |-> <<>>, imageVariations |-> <<>>]
    /\ reqs = [h \in Handlers |-> IdleReq]
    /\ nextId = 5
    /\ clock = 5
    /\ started = 0
    /\ origin = <<>>
    /\ statusChangedBy = <<>>
    /\ dashboard = NoDashboard

DraftsNext ==
    \E h \in Handlers : (started < MaxDraftRequests /\ Begin(h)) \/ Continue(h)

DraftsSpec == DraftsInit /\ [][DraftsNext]_vars

(***************************************************************************)
(* A worker that starts on a table holding one draft on which an earlier   *)
(* worker has run createTextVariations: the history column holds the JSON  *)
(* of three text variations (ids 3, 4, 5).  Its requests interleave at     *)
(* their awaits.                                                           *)
(***************************************************************************)
VariedHistory ==
    JSONstringify(HistoryValue(
        VariationRecords(CHOOSE v \in GeneratedVariations : TRUE, 3,
                         "shorter", Some("friendly"), 3),
        <<>>))

VariedInit ==
    /\ posts = InsertRow(<<>>, [StoredPost(1, 2, 1, Some(VariedHistory))
                                EXCEPT !.updatedAt = 3])
    /\ blobs = {PhotoKey(2, 2)}
    /\ emptyHistory = [textVariations |-> <<>>, imageVariations |-> <<>>]
    /\ reqs = [h \in Handlers |-> IdleReq]
    /\ nextId = 6
    /\ clock = 4
    /\ started = 0
    /\ origin = [i \in {3, 4, 5} |-> [post |-> 2, kind |-> "text"]]
    /\ statusChangedBy = <<>>
    /\ dashboard = NoDashboard

VariedNext ==
    \E h \in Handlers : (started < MaxVariedRequests /\ Begin(h)) \/ Continue(h)

VariedSpec == VariedInit /\ [][VariedNext]_vars

(***************************************************************************)
(* The Dashboard component (routes/index.tsx) with the TextVariationSheet  *)
(* and the ImageRegenerateDialog of its post cards.  Its posts state is    *)
(* kept here as the status it shows for each post; a handler calls a       *)
(* server function, awaits it, and then sets the state from the reply.     *)
(* One dashboard is open on the table of VariedInit; the user starts an    *)
(* action when the one before is complete.                                 *)
(***************************************************************************)
\* The route's loader: listPostsFn()
LoadedPosts == [p \in {row.id : row \in listPosts(NULL)} |-> posts[p].status]

DashboardInit ==
    /\ posts = InsertRow(<<>>, [StoredPost(1, 2, 1, Some(VariedHistory))
                                EXCEPT !.updatedAt = 3])
    /\ blobs = {PhotoKey(2, 2)}
    /\ emptyHistory = [textVariations |-> <<>>, imageVariations |-> <<>>]
    /\ reqs = [h \in Handlers |-> IdleReq]
    /\ nextId = 6
    /\ clock = 4
    /\ started = 0
    /\ origin = [i \in {3, 4, 5} |-> [post |-> 2, kind |-> "text"]]
    /\ statusChangedBy = <<>>
    /\ dashboard = [posts |-> LoadedPosts, call |-> NULL]

\* A handler calls the server function fn and awaits the reply.
CallFn(fn, id, variationId) ==
    /\ IsNull(dashboard.call)
    /\ AllFree
    /\ started < MaxDashboardRequests
    /\ dashboard' = [dashboard EXCEPT !.call =
          Some([fn |-> fn, id |-> id, variationId |-> variationId, ticket |-> started])]
    /\ UNCHANGED <<posts, blobs, emptyHistory, reqs, nextId, clock, started, origin,
                   statusChangedBy>>

\* updatePostAndSort(updatedPost): the post with this id is replaced.
updatePostAndSort(list, id, status) ==
    [p \in DOMAIN list |-> IF p = id THEN status ELSE list[p]]

\* handleUpdate(updatedPost), as the "Back to Draft" button calls it with
\* { ...post, status: "draft" }: the state is set, no server function is called.
handleUpdate(id, status) ==
    /\ IsNull(dashboard.call)
    /\ dashboard' = [dashboard EXCEPT !.posts = updatePostAndSort(@, id, status)]
    /\ UNCHANGED <<posts, blobs, emptyHistory, reqs, nextId, clock, started, origin,
                   statusChangedBy>>

\* The buttons of a post card's footer, by the status the card shows, and
\* the entries of its menu.
handleApprove(id) ==
    dashboard.posts[id] \in {"draft", "posted"} /\ CallFn("approvePostFn", id, 0)

handleReject(id) ==
    dashboard.posts[id] = "draft" /\ CallFn("rejectPostFn", id, 0)

handleMarkPosted(id) ==
    dashboard.posts[id] = "approved" /\ CallFn("markPostedFn", id, 0)

BackToDraft(id) ==
    dashboard.posts[id] = "rejected" /\ handleUpdate(id, "draft")

handleDelete(id) == CallFn("deletePostFn", id, 0)

handleGenerate(id) == CallFn("generateTextVariationsFn", id, 0)

handleAccept(id, variationId) == CallFn("acceptTextVariationFn", id, variationId)

handleRegenerate(id) == CallFn("regenerateImageFn", id, 0)

handleGenerateRandom == CallFn("generatePostsFn", 0, 0)

\* The call reaches the worker: the service function begins in slot h.
ServerFn(h) ==
    /\ ~IsNull(dashboard.call)
    /\ Val(dashboard.call).ticket = started
    /\ LET c == Val(dashboard.call)
       IN \/ c.fn = "approvePostFn" /\ \E user \in ActingUsers : approvePost(h, c.id, user)
          \/ c.fn = "rejectPostFn" /\ \E user \in ActingUsers : rejectPost(h, c.id, user)
          \/ c.fn = "markPostedFn" /\ \E user \in ActingUsers : markPostAsPosted(h, c.id, user)
          \/ c.fn = "deletePostFn" /\ BeginDeletePost(h, c.id)
          \/ c.fn = "generateTextVariationsFn"
               /\ \E feedback \in Feedbacks, tone \in Tones :
                     BeginCreateTextVariations(h, c.id, feedback, tone)
          \/ c.fn = "acceptTextVariationFn" /\ BeginAcceptTextVariation(h, c.id, c.variationId)
          \/ c.fn = "regenerateImageFn"
               /\ \E feedback \in Feedbacks : BeginRegenerateImage(h, c.id, feedback)
          \/ c.fn = "generatePostsFn" /\ BeginBatchOf(h, {1})

\* The posts state after the reply r to the call c: "if (updated)
\* updatePostAndSort(updated)", the filter of handleDelete, the new posts of
\* handleGenerateRandom; a call that threw changes nothing.
Replied(list, c, r) ==
    IF r.result # "ok" THEN list
    ELSE IF c.fn \in {"approvePostFn", "rejectPostFn", "markPostedFn",
                      "acceptTextVariationFn", "regenerateImageFn"}
    THEN updatePostAndSort(list, Val(r.returned).id, Val(r.returned).status)
    ELSE IF c.fn = "deletePostFn"
    THEN [p \in DOMAIN list \ {c.id} |-> list[p]]
    ELSE IF c.fn = "generatePostsFn"
    THEN [p \in DOMAIN list \cup {r.returned[i].id : i \in 1..Len(r.returned)} |->
             IF p \in DOMAIN list THEN list[p]
             ELSE (CHOOSE row \in {r.returned[i] : i \in 1..Len(r.returned)} :
                      row.id = p).status]
    ELSE list

\* The awaited call returns and the handler sets the state.
Resolve(h) ==
    /\ ~IsNull(dashboard.call)
    /\ started = Val(dashboard.call).ticket + 1
    /\ CanBegin(h)
    /\ reqs[h].pc = "done"
    /\ dashboard' = [posts |-> Replied(dashboard.posts, Val(dashboard.call), reqs[h]),
                     call |-> NULL]
    /\ UNCHANGED <<posts, blobs, emptyHistory, reqs, nextId, clock, started, origin,
                   statusChangedBy>>

\* What the user does on the dashboard.
Click ==
    \/ \E id \in DOMAIN dashboard.posts : handleApprove(id)
    \/ \E id \in DOMAIN dashboard.posts : handleReject(id)
    \/ \E id \in DOMAIN dashboard.posts : handleMarkPosted(id)
    \/ \E id \in DOMAIN dashboard.posts : BackToDraft(id)
    \/ \E id \in DOMAIN dashboard.posts : handleDelete(id)
    \/ \E id \in DOMAIN dashboard.posts : handleGenerate(id)
    \/ \E id \in DOMAIN dashboard.posts, variationId \in RequestedVariationIds :
          handleAccept(id, variationId)
    \/ \E id \in DOMAIN dashboard.posts : handleRegenerate(id)
    \/ handleGenerateRandom

DashboardNext ==
    \/ Click
    \/ \E h \in Handlers : ServerFn(h)
    \/ \E h \in Handlers : Continue(h)
    \/ \E h \in Handlers : Resolve(h)

DashboardSpec == DashboardInit /\ [][DashboardNext]_vars

(***************************************************************************)
(* Reading a stored row                                                    *)
(***************************************************************************)
\* The text / image variations a row's history column holds; none when the
\* column is null or is not the JSON of a history.
StoredText(row) ==
    IF ~IsNull(row.history) /\ IsHistoryText(Val(row.history))
    THEN Val(row.history).value.textVariations ELSE <<>>

StoredImages(row) ==
    IF ~IsNull(row.history) /\ IsHistoryText(Val(row.history))
    THEN Val(row.history).value.imageVariations ELSE <<>>

\* parseHashtags of the server functions: JSON.parse of the column, [] for null
parseHashtags(hashtags) == IF IsNull(hashtags) THEN <<>> ELSE Val(hashtags).value

AcceptedAt(list) == {i \in 1..Len(list) : list[i].accepted}
IdsAt(list, id) == {i \in 1..Len(list) : list[i].id = id}

\* Handler h has applied the UPDATE of a call of op to an existing row.
HasUpdated(h, op) ==
    /\ reqs[h].op = op
    /\ reqs[h].pc \in {"reread", "done"}
    /\ ~IsNull(reqs[h].after)

\* Handler h has returned from a call of op with this result.
Returned(h, op, result) ==
    reqs[h].op = op /\ reqs[h].pc = "done" /\ reqs[h].result = result

\* The row handler h's UPDATE found, and the row it left.
Before(h) == Val(reqs[h].before)
After(h) == Val(reqs[h].after)

(***************************************************************************)
(* Properties of acceptTextVariation                                       *)
(***************************************************************************)
\* C1: immediately after the UPDATE of a successful acceptTextVariation(postId,
\* variationId), exactly one entry of the post's stored textVariations has
\* accepted = true, and it is the entry whose id is variationId.
C1_ExactlyOneAccepted ==
    \A h \in Handlers :
        HasUpdated(h, "acceptTextVariation") =>
            /\ Cardinality(AcceptedAt(StoredText(After(h)))) = 1
            /\ AcceptedAt(StoredText(After(h))) = IdsAt(StoredText(After(h)), reqs[h].variationId)

\* An accept has returned the post, and the accepted entry is not the first of
\* the three stored ones.
C1_Witness ==
    \E h \in Handlers :
        /\ Returned(h, "acceptTextVariation", "ok")
        /\ ~IsNull(reqs[h].after)
        /\ Len(StoredText(After(h))) = 3
        /\ StoredText(After(h))[2].accepted

\* C2: in every reachable state, interleaved requests included, each post's
\* stored textVariations has at most one entry with accepted = true.
C2_AtMostOneAccepted ==
    \A p \in DOMAIN posts : Cardinality(AcceptedAt(StoredText(posts[p]))) <= 1

\* An accept has replaced another accepted variation: the row it updated had
\* an accepted entry with a different id.
C2_Witness ==
    \E h \in Handlers :
        /\ HasUpdated(h, "acceptTextVariation")
        /\ \E i \in AcceptedAt(StoredText(Before(h))) :
              StoredText(Before(h))[i].id # reqs[h].variationId
        /\ reqs[h].postId \in DOMAIN posts
        /\ Cardinality(AcceptedAt(StoredText(posts[reqs[h].postId]))) = 1

\* C3: a successful acceptTextVariation of variation V leaves the post's hook,
\* caption and hashtags equal to V's; and when V was already the accepted
\* variation of the row, the accept leaves hook, caption, hashtags and every
\* accepted flag as they were.
C3_AcceptCopiesAndIsIdempotent ==
    \A h \in Handlers :
        HasUpdated(h, "acceptTextVariation") =>
            LET V == FindVariation(StoredText(After(h)), reqs[h].variationId)
                was == StoredText(Before(h))
                now == StoredText(After(h))
            IN /\ ~IsNull(V)
               /\ After(h).hook = Val(V).hook
               /\ After(h).caption = Val(V).caption
               /\ parseHashtags(After(h).hashtags) = Val(V).hashtags
               /\ (\E i \in AcceptedAt(was) : was[i].id = reqs[h].variationId) =>
                     /\ After(h).hook = Before(h).hook
                     /\ After(h).caption = Before(h).caption
                     /\ After(h).hashtags = Before(h).hashtags
                     /\ Len(now) = Len(was)
                     /\ \A i \in 1..Len(was) : now[i].accepted = was[i].accepted

\* The same variation has been accepted a second time, and the post returned.
C3_Witness ==
    \E h \in Handlers :
        /\ Returned(h, "acceptTextVariation", "ok")
        /\ ~IsNull(reqs[h].after)
        /\ \E i \in AcceptedAt(StoredText(Before(h))) :
              StoredText(Before(h))[i].id = reqs[h].variationId
        /\ After(h).hook = "C"

(***************************************************************************)
(* Properties of the variation history                                     *)
(***************************************************************************)
\* The ids of the entries of a list.
IdsOf(list) == {list[i].id : i \in 1..Len(list)}

\* C4: every text or image variation in a post's stored history was made by
\* a call on that same post; hence no variation id is stored in two posts'
\* histories, and none of a deleted post's variations is stored anywhere.
C4_Ownership ==
    \A p \in DOMAIN posts :
        \A id \in IdsOf(StoredText(posts[p])) \cup IdsOf(StoredImages(posts[p])) :
            origin[id].post = p

\* C5: a successful createTextVariations on a row with n stored text
\* variations leaves n + k of them, k the number of variations returned: the
\* first n unchanged, the last k not accepted and with the returned ids, in
\* the order returned.
C5_AppendsExactlyK ==
    \A h \in Handlers :
        (Returned(h, "createTextVariations", "ok") /\ ~IsNull(reqs[h].after)) =>
            LET was == StoredText(Before(h))
                now == StoredText(After(h))
                k == Len(reqs[h].returned)
            IN /\ Len(now) = Len(was) + k
               /\ SubSeq(now, 1, Len(was)) = was
               /\ \A i \in 1..k :
                     /\ now[Len(was) + i].id = reqs[h].returned[i].id
                     /\ ~now[Len(was) + i].accepted

\* The columns createTextVariations must leave alone.
CreateFrame ==
    {"id", "pillar", "mainIdea", "hook", "caption", "hashtags", "imageStyle",
     "imagePrompt", "imageUrl", "imageKey", "status", "batchId", "createdBy",
     "approvedBy", "rejectedBy", "postedBy", "createdAt"}

\* C6: createTextVariations changes neither hook, caption, hashtags, status,
\* the image columns nor the stored imageVariations; and an UPDATE that
\* changes hook, caption or hashtags is one of acceptTextVariation.
C6_CreateFrame ==
    \A h \in Handlers :
        /\ (Returned(h, "createTextVariations", "ok") /\ ~IsNull(reqs[h].after)) =>
              /\ \A c \in CreateFrame : After(h)[c] = Before(h)[c]
              /\ StoredImages(After(h)) = StoredImages(Before(h))
        /\ (~IsNull(reqs[h].before) /\ ~IsNull(reqs[h].after)
              /\ \E c \in {"hook", "caption", "hashtags"} : After(h)[c] # Before(h)[c]) =>
              reqs[h].op = "acceptTextVariation"

\* C7: a successful regenerateImage lengthens the stored imageVariations by
\* exactly 2 when the post had an image URL and by exactly 1 when it had none.
C7_RegenerateAddsTwoOrOne ==
    \A h \in Handlers :
        HasUpdated(h, "regenerateImage") =>
            Len(StoredImages(After(h))) =
                Len(StoredImages(Before(h)))
                    + (IF IsNull(Before(h).imageUrl) THEN 1 ELSE 2)

\* The history column holds no history document: null, empty or malformed.
NoHistoryDocument(row) == IsNull(row.history) \/ ~IsHistoryText(Val(row.history))

\* C8: createTextVariations, acceptTextVariation and regenerateImage on a row
\* whose history column is absent or malformed never fail because of it, and
\* act as on the empty history: a create stores just its own variations, a
\* regenerateImage stores just its own one or two entries, an accept finds no
\* variation.
C8_AbsentOrMalformedIsEmpty ==
    \A h \in Handlers :
        /\ reqs[h].result # "TypeError"
        /\ (~IsNull(reqs[h].post) /\ NoHistoryDocument(Val(reqs[h].post))) =>
              /\ (Returned(h, "createTextVariations", "ok") /\ ~IsNull(reqs[h].after)) =>
                    /\ IdsOf(StoredText(After(h))) = IdsOf(reqs[h].returned)
                    /\ StoredImages(After(h)) = <<>>
              /\ HasUpdated(h, "regenerateImage") =>
                    /\ StoredText(After(h)) = <<>>
                    /\ Len(StoredImages(After(h))) =
                          (IF IsNull(Val(reqs[h].post).imageUrl) THEN 1 ELSE 2)
              /\ (reqs[h].op = "acceptTextVariation" /\ reqs[h].pc = "done") =>
                    reqs[h].result = "Variation not found"

\* C9: after the UPDATE of a successful regenerateImage with feedback f, the
\* last stored image variation is accepted, carries f, the improved prompt
\* and the new url and key, which are also the post's imagePrompt, imageUrl
\* and imageKey; and when the post had an image URL, the entry before it
\* holds the post's previous prompt, url and key with feedback "original",
\* not accepted.
C9_RegenerateEntries ==
    \A h \in Handlers :
        HasUpdated(h, "regenerateImage") =>
            LET list == StoredImages(After(h))
                n == Len(list)
                prior == Val(reqs[h].post)
            IN /\ n >= 1
               /\ list[n].accepted
               /\ list[n].feedback = reqs[h].feedback
               /\ list[n].imagePrompt = reqs[h].imagePrompt
               /\ list[n].imageUrl = Val(reqs[h].set).imageUrl
               /\ list[n].imageKey = Val(reqs[h].set).imageKey
               /\ After(h).imagePrompt = list[n].imagePrompt
               /\ After(h).imageUrl = list[n].imageUrl
               /\ After(h).imageKey = list[n].imageKey
               /\ ~IsNull(prior.imageUrl) =>
                     /\ n >= 2
                     /\ list[n - 1].imagePrompt = prior.imagePrompt
                     /\ list[n - 1].imageUrl = prior.imageUrl
                     /\ list[n - 1].imageKey = prior.imageKey
                     /\ list[n - 1].feedback = "original"
                     /\ ~list[n - 1].accepted

\* C10: when the text generation of createTextVariations, or the prompt
\* improvement or image generation of regenerateImage fails, the call ends
\* with that error, has issued no UPDATE, and the stored row is the row the
\* call read.
C10_FailureWritesNothing ==
    \A h \in Handlers :
        reqs[h].result = "GenerationFailed"
            /\ reqs[h].op \in {"createTextVariations", "regenerateImage"} =>
                /\ reqs[h].pc = "done"
                /\ IsNull(reqs[h].after)
                /\ getPost(reqs[h].postId) = reqs[h].post

\* The image generation of a regenerateImage has failed after the post's
\* current image was pushed onto the parsed history.
C10_Witness ==
    \E h \in Handlers :
        /\ Returned(h, "regenerateImage", "GenerationFailed")
        /\ reqs[h].imagePrompt \in ImprovedPrompts
        /\ ~IsNull(Val(reqs[h].post).imageUrl)

(***************************************************************************)
(* Errors of acceptTextVariation                                           *)
(***************************************************************************)
\* C11: acceptTextVariation ends with "Post not found" when the post does not
\* exist and with "Variation not found" when no entry of the post's stored
\* textVariations has the given id; in both cases it issues no UPDATE and
\* the stored row is the row it read.
C11_AcceptErrors ==
    \A h \in Handlers :
        (reqs[h].op = "acceptTextVariation" /\ reqs[h].pc # "accept") =>
            /\ IsNull(reqs[h].post) =>
                  /\ Returned(h, "acceptTextVariation", "Post not found")
                  /\ IsNull(reqs[h].after)
            /\ (~IsNull(reqs[h].post)
                  /\ reqs[h].variationId \notin IdsOf(StoredText(Val(reqs[h].post)))) =>
                  /\ Returned(h, "acceptTextVariation", "Variation not found")
                  /\ IsNull(reqs[h].after)
                  /\ getPost(reqs[h].postId) = reqs[h].post

(***************************************************************************)
(* Properties of the status changes                                        *)
(***************************************************************************)
\* C12: a post whose status is approved (rejected, posted) has as approvedBy
\* (rejectedBy, postedBy) the id of the user of the latest status change
\* applied to it, null when that change had no user; nothing is said of the
\* two other actor columns.
C12_ActorOfLatestChange ==
    \A p \in DOMAIN posts :
        /\ posts[p].status # "draft" => p \in DOMAIN statusChangedBy
        /\ posts[p].status = "approved" => posts[p].approvedBy = statusChangedBy[p]
        /\ posts[p].status = "rejected" => posts[p].rejectedBy = statusChangedBy[p]
        /\ posts[p].status = "posted" => posts[p].postedBy = statusChangedBy[p]

\* A post rejected by user u1 and then approved by a request without user:
\* approvedBy is null and rejectedBy still names u1.
C12_Witness ==
    \E p \in DOMAIN posts :
        /\ posts[p].status = "approved"
        /\ posts[p].approvedBy = NULL
        /\ posts[p].rejectedBy = Some("u1")

\* The columns a status change requested now can set.
StatusSets ==
    UNION {{ApproveSet(user, clock), RejectSet(user, clock), MarkPostedSet(user, clock)} :
              user \in ActingUsers}

\* The status each status function is to set.
StatusOf(op) ==
    CASE op = "approvePost" -> "approved"
      [] op = "rejectPost" -> "rejected"
      [] op = "markPostAsPosted" -> "posted"

StatusOps == {"approvePost", "rejectPost", "markPostAsPosted"}

\* C13 as stated: whatever a post's status, for each of the four status
\* values some status function sets the post's status to it.
C13_AnyOfFourFromAny ==
    \A p \in DOMAIN posts :
        \A status \in PostStatuses :
            \E set \in StatusSets : ApplySet(posts[p], set).status = status

\* C13 amended: whatever a post's status, for each of approved, rejected and
\* posted some status function sets the post's status to it, and a status
\* function that has run on an existing post has left it with its status
\* whatever the status was; no status function sets draft.
C13_AnyOfThreeFromAny ==
    /\ \A p \in DOMAIN posts :
          \A status \in PostStatuses \ {"draft"} :
              \E set \in StatusSets : ApplySet(posts[p], set).status = status
    /\ \A set \in StatusSets : set.status # "draft"
    /\ \A h \in Handlers :
          (reqs[h].op \in StatusOps /\ ~IsNull(reqs[h].after)) =>
              After(h).status = StatusOf(reqs[h].op)

\* A posted post has been taken back to approved.
C13_Witness ==
    \E h \in Handlers :
        /\ Returned(h, "approvePost", "ok")
        /\ ~IsNull(reqs[h].before)
        /\ Before(h).status = "posted"
        /\ After(h).status = "approved"

\* C14: a successful acceptTextVariation leaves the post's status and its
\* createdBy, approvedBy, rejectedBy and postedBy as they were, whatever the
\* status, posted included.
C14_AcceptKeepsStatus ==
    \A h \in Handlers :
        HasUpdated(h, "acceptTextVariation") =>
            \A c \in {"status", "createdBy", "approvedBy", "rejectedBy", "postedBy"} :
                After(h)[c] = Before(h)[c]

\* A variation has been accepted on a posted post, which is still posted.
C14_Witness ==
    \E h \in Handlers :
        /\ Returned(h, "acceptTextVariation", "ok")
        /\ ~IsNull(reqs[h].after)
        /\ Before(h).status = "posted"
        /\ After(h).status = "posted"
        /\ After(h).hook # Before(h).hook

C16_BatchRows ==
    \A h \in Handlers :
        reqs[h].op = "generatePostsBatch" =>
            LET r == reqs[h]
            IN /\ \A i \in 1..Len(r.returned) :
                     /\ r.returned[i].status = "draft"
                     /\ IsNull(r.returned[i].history)
                     /\ StoredText(r.returned[i]) = <<>>
                     /\ StoredImages(r.returned[i]) = <<>>
                     /\ r.returned[i].createdBy = r.user
                     /\ IsNull(r.returned[i].approvedBy)
                     /\ IsNull(r.returned[i].rejectedBy)
                     /\ IsNull(r.returned[i].postedBy)
                     /\ r.returned[i].batchId = r.batchId
                     /\ getPost(r.returned[i].id) = Some(r.returned[i])
               /\ {p \in DOMAIN posts : posts[p].batchId = r.batchId}
                     = {r.returned[i].id : i \in 1..Len(r.returned)}
               /\ Returned(h, "generatePostsBatch", "ok") => Len(r.returned) = r.count

\* User u1's batch of two posts has returned.
C16_Witness ==
    \E h \in Handlers :
        /\ Returned(h, "generatePostsBatch", "ok")
        /\ reqs[h].user = Some("u1")
        /\ reqs[h].count = 2
        /\ \A i \in 1..2 : reqs[h].returned[i].createdBy = Some("u1")

(***************************************************************************)
(* Properties of deletePost                                                *)
(***************************************************************************)
\* C17: once deletePost(id) has returned, getPost(id) finds no row and no
\* listPosts result, with or without status filter, holds a post with that id.
C17_DeletedIsGone ==
    \A h \in Handlers :
        Returned(h, "deletePost", "ok") =>
            /\ IsNull(getPost(reqs[h].postId))
            /\ \A status \in {NULL} \cup {Some(s) : s \in PostStatuses} :
                  \A row \in listPosts(status) : row.id # reqs[h].postId

\* deletePost has removed an existing post, and a regenerateImage on it that
\* was in flight has since issued its UPDATE and got no post back.
C17_Witness ==
    \E h \in Handlers :
        /\ Returned(h, "deletePost", "ok")
        /\ ~IsNull(reqs[h].before)
        /\ \E g \in Handlers :
              /\ reqs[g].postId = reqs[h].postId
              /\ Returned(g, "regenerateImage", "undefined")

\* The blobs in the bucket that were generated for post id: their keys are
\* posts/<timestamp>-<id>.jpg or posts/<timestamp>-<id>-card.svg.
BlobsOf(id) == {key \in blobs : key.postId = id}

\* C18: after a deletePost that found the post and whose blob deletion did
\* not fail, no image blob generated for the deleted post, its current image
\* or one recorded in its image history, is left in the bucket.
C18_DeleteRemovesImages ==
    \A h \in Handlers :
        (/\ Returned(h, "deletePost", "ok")
         /\ ~IsNull(reqs[h].post)
         /\ reqs[h].images # <<FALSE>>) =>
            BlobsOf(reqs[h].postId) = {}

\* C19: when the blob deletion inside deletePost fails, deletePost goes on to
\* the DELETE and returns without error, the row gone.
C19_BlobFailureSwallowed ==
    \A h \in Handlers :
        (reqs[h].op = "deletePost" /\ reqs[h].images = <<FALSE>>) =>
            \/ reqs[h].pc = "deleteRow"
            \/ /\ Returned(h, "deletePost", "ok")
               /\ IsNull(getPost(reqs[h].postId))
               /\ IsNull(reqs[h].after)

\* deletePost has returned after a failed blob deletion: the row it found is
\* gone, the blob is still in the bucket.
C19_Witness ==
    \E h \in Handlers :
        /\ Returned(h, "deletePost", "ok")
        /\ reqs[h].images = <<FALSE>>
        /\ ~IsNull(reqs[h].before)
        /\ Val(Val(reqs[h].post).imageKey) \in blobs
        /\ reqs[h].postId \notin DOMAIN posts

(***************************************************************************)
(* Images kept for the history                                             *)
(***************************************************************************)
\* The image keys a row names: its imageKey and those of its stored image
\* variations.
KeysOf(row) ==
    {Val(row.imageKey) : x \in {1} \ {IF IsNull(row.imageKey) THEN 1 ELSE 0}}
        \cup {Val(StoredImages(row)[i].imageKey) :
                 i \in {j \in 1..Len(StoredImages(row)) : ~IsNull(StoredImages(row)[j].imageKey)}}

\* C20: when no request is in flight, every image key an existing post names,
\* as its imageKey or in its stored imageVariations, is the key of a blob in
\* the bucket.
C20_HistoryBlobsExist ==
    AllFree => \A p \in DOMAIN posts : KeysOf(posts[p]) \subseteq blobs

(***************************************************************************)
(* C21.  A generateTextVariations or regenerateImage request whose         *)
(* feedback is empty or longer than 500 characters, or whose tone is       *)
(* present and not one of formal, friendly, spicy, minimal, is rejected    *)
(* before any collaborator is called and before anything is read or        *)
(* written: the step that takes the request ends it with a validation      *)
(* error, the request holds no row, no history, no generated text or       *)
(* prompt, and the table, the bucket and the shared history are as before. *)
(***************************************************************************)
InvalidData(data) ==
    \/ data.feedback.length = 0
    \/ data.feedback.length > 500
    \/ /\ ~IsNull(data.tone)
       /\ Val(data.tone) \notin {"formal", "friendly", "spicy", "minimal"}

C21_InvalidInputRejected ==
    [][\A h \in Handlers :
          (/\ reqs'[h] # reqs[h]
           /\ ~IsNull(reqs'[h].data)
           /\ InvalidData(Val(reqs'[h].data)))
          => /\ reqs'[h] = [IdleReq EXCEPT !.op = reqs'[h].op,
                                           !.postId = reqs'[h].postId,
                                           !.data = reqs'[h].data,
                                           !.pc = "done",
                                           !.result = "ValidationError"]
             /\ reqs'[h].op \in {"generateTextVariationsFn", "regenerateImageFn"}
             /\ UNCHANGED <<posts, blobs, emptyHistory, nextId, clock>>]_vars

\* A request on a stored post was rejected for a feedback of 501 characters
\* (the post is still stored afterwards).
C21_Witness ==
    \E h \in Handlers :
        /\ Returned(h, "generateTextVariationsFn", "ValidationError")
        /\ reqs[h].postId \in DOMAIN posts
        /\ Val(reqs[h].data).feedback.length = 501

(***************************************************************************)
(* C22.  createTextVariations, acceptTextVariation and regenerateImage     *)
(* read the history, change their copy and write it back whole, so two of  *)
(* them on the same post can interleave so that both report success while  *)
(* the stored history lacks what the first writer stored.  The invariant:  *)
(* an UPDATE of a call that read a history document stores that document   *)
(* as the call read it, with only the call's own changes (three appended   *)
(* text variations, the accepted flags, or appended image variations);     *)
(* an entry another call stored between the read and the UPDATE is not in  *)
(* the stored history afterwards.                                          *)
(***************************************************************************)
HistoryOps == {"createTextVariations", "acceptTextVariation", "regenerateImage"}

\* The list with the accepted flags left out of the comparison.
Unflagged(list) == [i \in 1..Len(list) |-> [list[i] EXCEPT !.accepted = FALSE]]

IsPrefix(s, t) == Len(s) <= Len(t) /\ SubSeq(t, 1, Len(s)) = s

C22_LastWriteWins ==
    \A h \in Handlers : \A op \in HistoryOps :
        (HasUpdated(h, op) /\ ~NoHistoryDocument(Val(reqs[h].post))) =>
            LET read == Val(reqs[h].post)
                made == IF op = "createTextVariations" THEN IdsOf(reqs[h].returned) ELSE {}
            IN /\ IsPrefix(Unflagged(StoredText(read)), Unflagged(StoredText(After(h))))
               /\ IdsOf(StoredText(After(h))) = IdsOf(StoredText(read)) \cup made
               /\ op # "acceptTextVariation" =>
                     IsPrefix(StoredText(read), StoredText(After(h)))
               /\ op = "acceptTextVariation" =>
                     AcceptedAt(StoredText(After(h)))
                        = IdsAt(StoredText(read), reqs[h].variationId)
               /\ IsPrefix(StoredImages(read), StoredImages(After(h)))
               /\ Len(StoredImages(After(h))) <= Len(StoredImages(read)) + 2
               /\ op # "regenerateImage" => StoredImages(After(h)) = StoredImages(read)
               /\ \A id \in IdsOf(StoredText(Before(h))) \ IdsOf(StoredText(read)) :
                     id \notin IdsOf(StoredText(After(h)))
               /\ \A id \in IdsOf(StoredImages(Before(h))) \ IdsOf(StoredImages(read)) :
                     id \notin IdsOf(StoredImages(After(h)))

\* Two createTextVariations calls on the post both returned their three
\* variations, and the stored history holds none of the variations of the
\* one that wrote first.
C22_Witness ==
    \E h, g \in Handlers :
        /\ h # g
        /\ reqs[h].postId = reqs[g].postId
        /\ reqs[h].postId \in DOMAIN posts
        /\ Returned(h, "createTextVariations", "ok") /\ ~IsNull(reqs[h].after)
        /\ Returned(g, "createTextVariations", "ok") /\ ~IsNull(reqs[g].after)
        /\ reqs[g].before = reqs[h].after
        /\ posts[reqs[h].postId] = After(g)
        /\ IdsOf(reqs[h].returned) # {}
        /\ IdsOf(reqs[h].returned) \cap IdsOf(StoredText(posts[reqs[h].postId])) = {}

(***************************************************************************)
(* C23.  When requests do not interleave, a text variation that is stored  *)
(* in a post's history stays there, at the same position and with the same *)
(* id, hook, caption, hashtags, feedback, tone and createdAt, in every     *)
(* later state in which the post exists; only its accepted flag changes.   *)
(***************************************************************************)
C23_StoredVariationsStay ==
    [][\A p \in DOMAIN posts \cap DOMAIN posts' :
          IsPrefix(Unflagged(StoredText(posts[p])), Unflagged(StoredText(posts'[p])))]_vars

\* An acceptTextVariation has changed the accepted flag of a stored
\* variation of a post that holds the variations of two createTextVariations
\* calls.
C23_Witness ==
    \E h \in Handlers :
        /\ Returned(h, "acceptTextVariation", "ok")
        /\ ~IsNull(reqs[h].after)
        /\ Len(StoredText(Before(h))) = 6
        /\ StoredText(After(h)) # StoredText(Before(h))
        /\ Unflagged(StoredText(After(h))) = Unflagged(StoredText(Before(h)))
        /\ posts[reqs[h].postId] = After(h)

(***************************************************************************)
(* C24.  In every reachable state, whatever the interleaving of            *)
(* createTextVariations, acceptTextVariation and regenerateImage calls on  *)
(* a post: if the post's stored history has a text variation with          *)
(* accepted = true, the post's hook, caption and hashtags are that         *)
(* variation's.                                                            *)
(***************************************************************************)
C24_AcceptedIsCanonical ==
    \A p \in DOMAIN posts :
        \A i \in AcceptedAt(StoredText(posts[p])) :
            /\ posts[p].hook = StoredText(posts[p])[i].hook
            /\ posts[p].caption = StoredText(posts[p])[i].caption
            /\ parseHashtags(posts[p].hashtags) = StoredText(posts[p])[i].hashtags

(***************************************************************************)
(* C25.  A createTextVariations or regenerateImage call that fails in a    *)
(* collaborator leaves no trace on later calls: when such a call has       *)
(* returned its error, the history a following call on the same post       *)
(* starts from (the parsed history column) holds no entry the failed call  *)
(* made, so the following call stores what it would have stored without    *)
(* the failed one.                                                         *)
(***************************************************************************)
C25_FailureLeavesNoTrace ==
    \A h \in Handlers : \A op \in {"createTextVariations", "regenerateImage"} :
        (Returned(h, op, "GenerationFailed") /\ reqs[h].postId \in DOMAIN posts) =>
            LET next == Deref(parseHistory(posts[reqs[h].postId].history), emptyHistory)
            IN \A i \in 1..Len(next.imageVariations) :
                  [next.imageVariations[i] EXCEPT !.id = 0]
                     # OriginalImage(0, Val(reqs[h].post))

(***************************************************************************)
(* C26.  draft is only an initial state: once a status change has been     *)
(* applied to a post, its stored status is approved, rejected or posted in *)
(* every later state; no UPDATE of the services sets status = draft.       *)
(***************************************************************************)
C26_NeverBackToDraft ==
    /\ \A p \in DOMAIN posts \cap DOMAIN statusChangedBy :
          posts[p].status \in {"approved", "rejected", "posted"}
    /\ \A h \in Handlers :
          (~IsNull(reqs[h].set) /\ "status" \in DOMAIN Val(reqs[h].set)) =>
              Val(reqs[h].set).status # "draft"

\* A regenerateImage has rewritten the image and history of a post that was
\* marked as posted before: the row is still posted.
C26_Witness ==
    \E h \in Handlers :
        /\ Returned(h, "regenerateImage", "ok")
        /\ ~IsNull(reqs[h].after)
        /\ reqs[h].postId \in DOMAIN statusChangedBy
        /\ Before(h).status = "posted"
        /\ Before(h).imageKey # After(h).imageKey
        /\ posts[reqs[h].postId].status = "posted"

(***************************************************************************)
(* C27.  A status change (approvePost, rejectPost, markPostAsPosted) and a *)
(* createTextVariations, acceptTextVariation or regenerateImage on the     *)
(* same existing post, interleaved at any point, lose neither effect: when *)
(* both have written, one right after the other and no one since, the row  *)
(* has the status and actor the status change set and the content columns  *)
(* and history the other operation set.                                    *)
(***************************************************************************)
C27_StatusAndContentBothKept ==
    \A h, g \in Handlers : \A op \in HistoryOps :
        (/\ Returned(h, op, "ok") /\ ~IsNull(reqs[h].after)
         /\ reqs[g].op \in StatusOps /\ ~IsNull(reqs[g].after)
         /\ reqs[g].postId = reqs[h].postId
         /\ reqs[h].postId \in DOMAIN posts
         /\ \/ Before(h) = After(g) /\ posts[reqs[h].postId] = After(h)
            \/ Before(g) = After(h) /\ posts[reqs[h].postId] = After(g)) =>
            LET row == posts[reqs[h].postId]
            IN /\ \A c \in DOMAIN Val(reqs[g].set) \ {"updatedAt"} :
                     row[c] = Val(reqs[g].set)[c]
               /\ row.status = StatusOf(reqs[g].op)
               /\ \A c \in DOMAIN Val(reqs[h].set) \ {"updatedAt"} :
                     row[c] = Val(reqs[h].set)[c]

\* An acceptTextVariation read the draft, an approvePost by u1 was applied,
\* and then the accept wrote: the post is approved by u1 and has the
\* accepted variation's text.
C27_Witness ==
    \E h, g \in Handlers :
        /\ Returned(h, "acceptTextVariation", "ok") /\ ~IsNull(reqs[h].after)
        /\ reqs[g].op = "approvePost" /\ ~IsNull(reqs[g].after)
        /\ reqs[g].postId = reqs[h].postId
        /\ Val(reqs[h].post).status = "draft"
        /\ Before(h) = After(g)
        /\ reqs[h].postId \in DOMAIN posts
        /\ posts[reqs[h].postId] = After(h)
        /\ posts[reqs[h].postId].status = "approved"
        /\ posts[reqs[h].postId].approvedBy = Some("u1")
        /\ posts[reqs[h].postId].hook # Val(reqs[h].post).hook

(***************************************************************************)
(* C28.  A deleted post is never resurrected: once deletePost has removed  *)
(* a row, no status change, createTextVariations, acceptTextVariation or   *)
(* regenerateImage on that id, in flight or later, creates a row with that *)
(* id, and such a call ends with a not-found result (undefined or a        *)
(* "Post not found" error): a call that reports success has written to an  *)
(* existing row.                                                           *)
(***************************************************************************)
C28_DeletedStaysDeleted ==
    /\ \A d \in Handlers :
          (reqs[d].op = "deletePost" /\ reqs[d].pc = "done" /\ ~IsNull(reqs[d].post)) =>
              reqs[d].postId \notin DOMAIN posts
    /\ \A h \in Handlers : \A op \in StatusOps \cup HistoryOps :
          Returned(h, op, "ok") => ~IsNull(reqs[h].after)

(***************************************************************************)
(* C29.  approvePost, rejectPost and markPostAsPosted change only status,  *)
(* the one actor column of the new status, and updatedAt: the content and  *)
(* image columns, history, batchId, createdBy, createdAt and the two other *)
(* actor columns are as the UPDATE found them.                             *)
(***************************************************************************)
ActorColumnOf(op) ==
    CASE op = "approvePost" -> "approvedBy"
      [] op = "rejectPost" -> "rejectedBy"
      [] op = "markPostAsPosted" -> "postedBy"

C29_StatusFrame ==
    \A h \in Handlers :
        (reqs[h].op \in StatusOps /\ ~IsNull(reqs[h].after)) =>
            /\ \A c \in DOMAIN Before(h) \ {"status", ActorColumnOf(reqs[h].op), "updatedAt"} :
                  After(h)[c] = Before(h)[c]
            /\ After(h).status = StatusOf(reqs[h].op)
            /\ After(h)[ActorColumnOf(reqs[h].op)] = reqs[h].user

\* approvePost by a request without user on a post that u1 had rejected and
\* that holds stored variations: rejectedBy still names u1, the history is
\* untouched.
C29_Witness ==
    \E h \in Handlers :
        /\ reqs[h].op = "approvePost" /\ ~IsNull(reqs[h].after)
        /\ Before(h).status = "rejected"
        /\ Before(h).rejectedBy = Some("u1")
        /\ After(h).rejectedBy = Some("u1")
        /\ After(h).approvedBy = NULL
        /\ After(h).status = "approved"
        /\ ~IsNull(After(h).history)
        /\ After(h).history = Before(h).history

(***************************************************************************)
(* C30.  After every completed dashboard action (approve, reject, mark     *)
(* posted, unmark posted, back to draft, accept variation, regenerate      *)
(* image, delete), each post of the dashboard's posts state has the status *)
(* that is stored for it in the table.                                     *)
(***************************************************************************)
C30_DashboardShowsStoredStatus ==
    IsNull(dashboard.call) =>
        \A p \in DOMAIN dashboard.posts :
            /\ p \in DOMAIN posts
            /\ dashboard.posts[p] = posts[p].status

=============================================================================
